---- MODULE Spec2Model ----
(***************************************************************************)
(* Model of ichnaea/data/internal.py: the InternalTransform schema mapper  *)
(* and the InternalUploader batch pipeline (send, process_user,            *)
(* process_reports, process_report, process_datamap, process_score,        *)
(* emit_stats).                                                            *)
(*                                                                         *)
(* Python dicts are functions with a finite string domain; a missing key   *)
(* is a key outside DOMAIN.  Numeric None is the integer None, a JSON null *)
(* in a string-valued field (api_key, nickname) is the string Null.        *)
(***************************************************************************)
EXTENDS Integers, Sequences, FiniteSets, TLC

VARIABLES
    mpc,        \* schema mapper run: "input" | "mapped"
    mitem,      \* the raw report item handed to the mapper
    mreport,    \* the result of _format_report(mitem)
    rpc,        \* process_report run: "input" | "done"
    rdata,      \* the canonical report handed to process_report
    rresult,    \* the tuple returned by process_report(rdata)
    pc,         \* uploader position: "collect" | "process" | "flushed" | "failed"
    payload,    \* the items of the upload payload, in order
    groups,     \* groups of send still to be processed
    users,      \* the user table: sequence of [id, nickname]
    pipe,       \* the payload's command buffer: enqueue calls not yet committed
    queues,     \* enqueue calls visible on the data queues
    stats,      \* counters emitted to the stats client
    log,        \* one record per processed group (history)
    stations,   \* the station tables: known station keys per technology
    wpc,        \* concurrent resolvers: position of each worker
    wnick,      \* concurrent resolvers: the nickname each worker resolves
    wold,       \* concurrent resolvers: the row each worker's lookup returned
    resolved    \* concurrent resolvers: the [nickname, userid] results returned

vars == <<mpc, mitem, mreport, rpc, rdata, rresult, pc, payload, groups, users,
          pipe, queues, stats, log, stations, wpc, wnick, wold, resolved>>

mapVars == <<mpc, mitem, mreport>>
repVars == <<rpc, rdata, rresult>>
upVars == <<pc, payload, groups, pipe, queues, stats, log, stations>>
wVars == <<wpc, wnick, wold, resolved>>

-----------------------------------------------------------------------------
(* Values *)

None == -1
Null == "null"
EmptyDict == [x \in {} |-> None]

Get(d, k) == IF k \in DOMAIN d THEN d[k] ELSE None
Put(d, k, v) == [x \in (DOMAIN d) \cup {k} |-> IF x = k THEN v ELSE d[x]]
Update(d, e) == [x \in (DOMAIN d) \cup (DOMAIN e) |-> IF x \in DOMAIN e THEN e[x] ELSE d[x]]
Pop(d, k) == [x \in (DOMAIN d) \ {k} |-> d[x]]
GetList(d, k) == IF k \in DOMAIN d THEN d[k] ELSE <<>>

Technologies == <<"blue", "cell", "wifi">>

-----------------------------------------------------------------------------
(* InternalTransform *)

position_id == <<"position", Null>>
position_map == <<
    <<"latitude", "lat">>,
    <<"longitude", "lon">>,
    <<"accuracy", "accuracy">>,
    <<"altitude", "altitude">>,
    <<"altitudeAccuracy", "altitude_accuracy">>,
    <<"age", "age">>,
    <<"heading", "heading">>,
    <<"pressure", "pressure">>,
    <<"speed", "speed">>,
    <<"source", "source">> >>

blue_id == <<"bluetoothBeacons", "blue">>
blue_map == <<
    <<"macAddress", "key">>,
    <<"age", "age">>,
    <<"signalStrength", "signal">> >>

cell_id == <<"cellTowers", "cell">>
cell_map == <<
    <<"radioType", "radio">>,
    <<"mobileCountryCode", "mcc">>,
    <<"mobileNetworkCode", "mnc">>,
    <<"locationAreaCode", "lac">>,
    <<"cellId", "cid">>,
    <<"age", "age">>,
    <<"asu", "asu">>,
    <<"primaryScramblingCode", "psc">>,
    <<"serving", "serving">>,
    <<"signalStrength", "signal">>,
    <<"timingAdvance", "ta">> >>

wifi_id == <<"wifiAccessPoints", "wifi">>
wifi_map == <<
    <<"macAddress", "key">>,
    <<"radioType", "radio">>,
    <<"age", "age">>,
    <<"channel", "channel">>,
    <<"frequency", "frequency">>,
    <<"signalToNoiseRatio", "signalToNoiseRatio">>,
    <<"signalStrength", "signal">> >>

\* A bug that copies a null source value instead of omitting it.
MapFieldKeepsNull(value, target, source_value) == Put(value, target, source_value)

\* One iteration of _map_dict's loop body.
MapField(value, target, source_value) ==
    IF source_value # None THEN Put(value, target, source_value) ELSE value

RECURSIVE MapDictFrom(_, _, _, _)
MapDictFrom(item_source, field_map, i, value) ==
    IF i > Len(field_map) THEN value
    ELSE LET source == field_map[i][1]
             target == field_map[i][2]
             source_value == Get(item_source, source)
         IN  MapDictFrom(item_source, field_map, i + 1,
                         MapField(value, target, source_value))

_map_dict(item_source, field_map) == MapDictFrom(item_source, field_map, 1, EmptyDict)

\* _parse_dict returns the report after its update (the mapped value is unused
\* by the caller).
_parse_dict(item, report, key_map, field_map) ==
    LET has_source == IF key_map[1] = Null THEN TRUE ELSE key_map[1] \in DOMAIN item
        item_source == IF key_map[1] = Null THEN item
                       ELSE IF has_source THEN item[key_map[1]] ELSE EmptyDict
        value == IF has_source /\ DOMAIN item_source # {}
                 THEN _map_dict(item_source, field_map) ELSE EmptyDict
    IN  IF DOMAIN value # {}
        THEN IF key_map[2] = Null THEN Update(report, value)
             ELSE Put(report, key_map[2], value)
        ELSE report

RECURSIVE ParseListFrom(_, _, _, _)
ParseListFrom(source_list, field_map, i, values) ==
    IF i > Len(source_list) THEN values
    ELSE LET value == _map_dict(source_list[i], field_map)
         IN  ParseListFrom(source_list, field_map, i + 1,
                 IF DOMAIN value # {} THEN Append(values, value) ELSE values)

ParseListValues(item, key_map, field_map) ==
    ParseListFrom(GetList(item, key_map[1]), field_map, 1, <<>>)

_parse_list(item, report, key_map, field_map) ==
    LET values == ParseListValues(item, key_map, field_map)
    IN  IF values # <<>> THEN Put(report, key_map[2], values) ELSE report

Transform(item) ==
    LET r0 == _parse_dict(item, EmptyDict, position_id, position_map)
        timestamp == Get(item, "timestamp")
        r1 == IF timestamp # None /\ timestamp # 0
              THEN Put(r0, "timestamp", timestamp) ELSE r0
        blues == ParseListValues(item, blue_id, blue_map)
        cells == ParseListValues(item, cell_id, cell_map)
        wifis == ParseListValues(item, wifi_id, wifi_map)
        r2 == _parse_list(item, r1, blue_id, blue_map)
        r3 == _parse_list(item, r2, cell_id, cell_map)
        r4 == _parse_list(item, r3, wifi_id, wifi_map)
    IN  IF blues # <<>> \/ cells # <<>> \/ wifis # <<>> THEN r4 ELSE EmptyDict

\* datetime.utcfromtimestamp(timestamp / 1000.0).replace(microsecond=0): the
\* time is the whole number of seconds of the millisecond timestamp.
_format_report(item) ==
    LET report == Transform(item)
        timestamp == Get(report, "timestamp")
        popped == Pop(report, "timestamp")
    IN  IF timestamp # None /\ timestamp # 0
        THEN Put(popped, "time", timestamp \div 1000)
        ELSE popped

-----------------------------------------------------------------------------
(* Collaborators of ichnaea.models used by process_report *)

\* Report.create(**data) returns a report only for a usable position.
ReportValid(data) ==
    /\ "lat" \in DOMAIN data /\ "lon" \in DOMAIN data
    /\ data["lat"] >= -90 /\ data["lat"] <= 90 /\ data["lat"] # None
    /\ data["lon"] >= -180 /\ data["lon"] <= 180 /\ data["lon"] # None

ReportCreate(data) == [lat |-> data["lat"], lon |-> data["lon"]]

\* BlueReport/CellReport/WifiReport.create(**item) returns a report only when
\* the station's identifying field is present and well formed (the model's
\* malformed identifier is 0).
ItemValid(name, item) ==
    IF name = "cell" THEN "cid" \in DOMAIN item /\ item["cid"] >= 1
    ELSE "key" \in DOMAIN item /\ item["key"] >= 1

\* obs_cls.combine(report, item_report)
Combine(name, report, item) ==
    IF name = "cell"
    THEN [lat |-> report.lat, lon |-> report.lon,
          cellid |-> <<Get(item, "radio"), Get(item, "mcc"), Get(item, "mnc"),
                       Get(item, "lac"), item["cid"]>>,
          signal |-> Get(item, "signal"), age |-> Get(item, "age")]
    ELSE [lat |-> report.lat, lon |-> report.lon,
          mac |-> item["key"],
          signal |-> Get(item, "signal"), age |-> Get(item, "age")]

\* item_obs.unique_key
UniqueKey(name, obs) == IF name = "cell" THEN obs.cellid ELSE obs.mac

\* existing.better(item_obs): the existing observation is kept unless the new
\* one is strictly more informative; a tie keeps the existing one.
Informativeness(obs) == IF obs.signal = None THEN 0 ELSE obs.signal
Better(existing, item_obs) == Informativeness(existing) >= Informativeness(item_obs)

-----------------------------------------------------------------------------
(* InternalUploader.process_report *)

\* The index of the observation with the key in the insertion-ordered dict
\* observations[name], 0 when there is none.
IndexOfKey(name, obs, key) ==
    IF \E i \in 1..Len(obs) : UniqueKey(name, obs[i]) = key
    THEN CHOOSE i \in 1..Len(obs) : UniqueKey(name, obs[i]) = key
    ELSE 0

\* A bug that appends every observation, deduplicating nothing.
StoreObservationAppends(name, obs, item_obs) == Append(obs, item_obs)

\* A bug that lets the last observation of a key win whatever its quality.
StoreAtLastWins(obs, item_obs, i) ==
    IF i = 0 THEN Append(obs, item_obs) ELSE [obs EXCEPT ![i] = item_obs]

\* Lines 330-335: keep a better existing observation (at index i of the
\* dict, 0 for none), otherwise store the new one under the key.
StoreAt(obs, item_obs, i) ==
    IF i = 0 THEN Append(obs, item_obs)
    ELSE IF Better(obs[i], item_obs) THEN obs
    ELSE [obs EXCEPT ![i] = item_obs]

\* Lines 327-335.
StoreObservation(name, obs, item_obs) ==
    StoreAt(obs, item_obs, IndexOfKey(name, obs, UniqueKey(name, item_obs)))

\* A bug that turns a malformed entry into the end of the technology's list.
ItemStepStops(name, report, item, acc) ==
    IF acc.stopped \/ ~ItemValid(name, item)
    THEN [acc EXCEPT !.malformed = @ + (IF acc.stopped THEN 0 ELSE 1), !.stopped = TRUE]
    ELSE [acc EXCEPT !.obs = StoreObservation(name, @, Combine(name, report, item))]

\* Lines 318-335: the body of the loop over one technology's entries.
ItemStep(name, report, item, acc) ==
    IF ~ItemValid(name, item)
    THEN [acc EXCEPT !.malformed = @ + 1]
    ELSE [acc EXCEPT !.obs = StoreObservation(name, @, Combine(name, report, item))]

RECURSIVE ProcessItems(_, _, _, _, _)
ProcessItems(name, report, items, i, acc) ==
    IF i > Len(items) THEN acc
    ELSE ProcessItems(name, report, items, i + 1, ItemStep(name, report, items[i], acc))

ProcessTechnology(name, report, data) ==
    ProcessItems(name, report, GetList(data, name), 1,
                 [obs |-> <<>>, malformed |-> 0, stopped |-> FALSE])

\* Lines 337-342: the returned tuple as a record.
ReportResult(b, c, w) ==
    [ok |-> TRUE, blue |-> b.obs, cell |-> c.obs, wifi |-> w.obs,
     malformed |-> [blue |-> b.malformed, cell |-> c.malformed, wifi |-> w.malformed]]

\* ok is FALSE for the tuple (None, None, None, malformed) of line 309.
process_report(data) ==
    IF ~ReportValid(data)
    THEN [ok |-> FALSE, blue |-> <<>>, cell |-> <<>>, wifi |-> <<>>,
          malformed |-> [blue |-> 0, cell |-> 0, wifi |-> 0]]
    ELSE ReportResult(ProcessTechnology("blue", ReportCreate(data), data),
                      ProcessTechnology("cell", ReportCreate(data), data),
                      ProcessTechnology("wifi", ReportCreate(data), data))

-----------------------------------------------------------------------------
(* Collaborators used by process_reports, process_datamap, process_score *)

RECURSIVE SetToSeq(_)
SetToSeq(S) ==
    IF S = {} THEN <<>>
    ELSE LET x == CHOOSE y \in S : TRUE IN <<x>> \o SetToSeq(S \ {x})

Range(f) == {f[i] : i \in DOMAIN f}

\* BlueShard/CellShard/WifiShard.shard_id(key) and shard_model(key): a
\* deterministic partition of the station keys (two shards in the model).
StationId(name, key) == IF name = "cell" THEN key[5] ELSE key
ShardId(name, key) == IF StationId(name, key) % 2 = 0 THEN "0" ELSE "1"

\* obs.mac / obs.cellid
StationKey(name, obs) == IF name = "cell" THEN obs.cellid ELSE obs.mac

\* value.to_json()
ToJson(obs) == [json |-> obs]

\* DataMap.scale, DataMap.shard_id, encode_datamap_grid
Scale(lat, lon) == <<lat * 1000, lon * 1000>>
DataMapShardId(lat, lon) ==
    (IF lat < 36000 THEN "s" ELSE "n") \o (IF lon < 5000 THEN "w" ELSE "e")
EncodeDatamapGrid(lat, lon) == [grid |-> <<lat, lon>>]

\* Score.to_hashkey(userid=, key=, time=None)
ToHashkey(userid, key) == [userid |-> userid, key |-> key, time |-> None]

\* session.query(ApiKey).get(api_key), api_key.should_log('submit')
ApiKeys == {"test"}
ShouldLog(api_key) == api_key \in ApiKeys

\* DataQueue.enqueue(items, pipe=, json=): a call issued against a pipe is
\* buffered in it until the pipe is executed; a call issued without one is
\* pushed to the queue at once.  io is [pipe, queues, calls].
Enqueue(io, queue, items, with_pipe, json) ==
    LET call == [queue |-> queue, items |-> items, pipe |-> with_pipe, json |-> json]
    IN  [pipe |-> IF with_pipe THEN Append(io.pipe, call) ELSE io.pipe,
         queues |-> IF with_pipe THEN io.queues ELSE Append(io.queues, call),
         calls |-> Append(io.calls, call)]

-----------------------------------------------------------------------------
(* InternalUploader.process_user *)

NicknameValid(nickname) ==
    nickname # Null /\ nickname # "" /\ 2 <= Len(nickname) /\ Len(nickname) <= 128

\* rows.first(): the first row with the nickname, as a sequence of 0 or 1 rows
FirstUser(table, nickname) ==
    LET I == {i \in 1..Len(table) : table[i].nickname = nickname}
    IN  IF I = {} THEN <<>> ELSE <<table[CHOOSE i \in I : \A j \in I : i <= j]>>

\* session.add(user); session.flush(): the row gets the next identifier
AddUser(table, nickname) == Append(table, [id |-> Len(table) + 1, nickname |-> nickname])

process_user(table, nickname) ==
    IF NicknameValid(nickname)
    THEN LET old == FirstUser(table, nickname)
         IN  IF old = <<>>
             THEN [userid |-> Len(table) + 1, users |-> AddUser(table, nickname)]
             ELSE [userid |-> old[1].id, users |-> table]
    ELSE [userid |-> None, users |-> table]

-----------------------------------------------------------------------------
(* InternalUploader.new_stations *)

\* The rows of one shard's table whose key is among keys.
QueryShard(name, shard, keys) ==
    {k \in stations[name] : ShardId(name, k) = shard /\ k \in keys}

RECURSIVE SubtractKnown(_, _, _)
SubtractKnown(name, shards, unknown_keys) ==
    IF shards = <<>> THEN unknown_keys
    ELSE LET shard == Head(shards)
             keys == {k \in unknown_keys : ShardId(name, k) = shard}
         IN  SubtractKnown(name, Tail(shards),
                           unknown_keys \ QueryShard(name, shard, keys))

\* A bug that counts every supplied key as new.
new_stations_all_new(name, station_keys) == Cardinality(station_keys)

new_stations(name, station_keys) ==
    IF Cardinality(station_keys) = 0 THEN 0
    ELSE LET shards == SetToSeq({ShardId(name, k) : k \in station_keys})
         IN  Cardinality(SubtractKnown(name, shards, station_keys))

-----------------------------------------------------------------------------
(* InternalUploader.process_reports and the steps it calls *)

NoObservations == [blue |-> <<>>, cell |-> <<>>, wifi |-> <<>>]
ZeroCount == [blue |-> 0, cell |-> 0, wifi |-> 0]

\* Lines 237-251: the loop body after the call of process_report returned r.
ReportStepWith(acc, report, r) ==
    LET accepted == r.blue # <<>> \/ r.cell # <<>> \/ r.wifi # <<>>
    IN  [observations |-> [name \in {"blue", "cell", "wifi"} |->
                              acc.observations[name] \o r[name]],
         upload |-> [name \in {"blue", "cell", "wifi"} |->
                        acc.upload[name] + Len(r[name])],
         drop |-> [name \in {"blue", "cell", "wifi"} |->
                      acc.drop[name] + r.malformed[name]],
         positions |-> IF accepted
                       THEN acc.positions \cup {<<report["lat"], report["lon"]>>}
                       ELSE acc.positions,
         malformed_reports |-> IF accepted THEN acc.malformed_reports
                               ELSE acc.malformed_reports + 1,
         results |-> Append(acc.results, r)]

\* Lines 235-251: the body of the loop over the reports.
ReportStep(acc, report) == ReportStepWith(acc, report, process_report(report))

RECURSIVE ReportLoop(_, _, _)
ReportLoop(reports, i, acc) ==
    IF i > Len(reports) THEN acc
    ELSE ReportLoop(reports, i + 1, ReportStep(acc, reports[i]))

\* A bug that routes every observation to the shard of the first one.
ShardOfFirst(name, obs, ob) == ShardId(name, StationKey(name, obs[1]))

\* Lines 267, 277, 287: the shard an observation is filed under.
ShardOf(name, obs, ob) == ShardId(name, StationKey(name, ob))

\* sharded_obs as a sequence of [shard_id, values] in order of first use.
AddToShard(sharded, shard_id, ob) ==
    LET J == {j \in 1..Len(sharded) : sharded[j].shard_id = shard_id}
    IN  IF J = {}
        THEN Append(sharded, [shard_id |-> shard_id, values |-> <<ob>>])
        ELSE [sharded EXCEPT ![CHOOSE k \in J : TRUE].values = Append(@, ob)]

RECURSIVE ShardedObs(_, _, _, _)
ShardedObs(name, obs, i, sharded) ==
    IF i > Len(obs) THEN sharded
    ELSE ShardedObs(name, obs, i + 1,
                    AddToShard(sharded, ShardOf(name, obs, obs[i]), obs[i]))

RECURSIVE EnqueueShards(_, _, _, _)
EnqueueShards(io, name, sharded, i) ==
    IF i > Len(sharded) THEN io
    ELSE EnqueueShards(
            Enqueue(io, "update_" \o name \o "_" \o sharded[i].shard_id,
                    [k \in 1..Len(sharded[i].values) |-> ToJson(sharded[i].values[k])],
                    TRUE, TRUE),
            name, sharded, i + 1)

\* Lines 264-292 for one technology.
EnqueueObservations(io, name, obs) ==
    IF obs # <<>> THEN EnqueueShards(io, name, ShardedObs(name, obs, 1, <<>>), 1)
    ELSE io

RECURSIVE EnqueueDatamapShards(_, _, _)
EnqueueDatamapShards(io, grids, shards) ==
    IF shards = <<>> THEN io
    ELSE LET shard_id == Head(shards)
             values == {EncodeDatamapGrid(g[1], g[2]) :
                        g \in {h \in grids : DataMapShardId(h[1], h[2]) = shard_id}}
         IN  EnqueueDatamapShards(
                Enqueue(io, "update_datamap_" \o shard_id, SetToSeq(values), TRUE, FALSE),
                grids, Tail(shards))

process_datamap(io, positions) ==
    IF positions = {} THEN io
    ELSE LET grids == {Scale(p[1], p[2]) : p \in {q \in positions : q[1] # None /\ q[2] # None}}
             shards == SetToSeq({DataMapShardId(g[1], g[2]) : g \in grids})
         IN  EnqueueDatamapShards(io, grids, shards)

ScoreList(userid, positions, new_station_count) ==
    <<[hashkey |-> ToHashkey(userid, "location"), value |-> Cardinality(positions)]>>
    \o (IF new_station_count["cell"] <= 0 THEN <<>>
        ELSE <<[hashkey |-> ToHashkey(userid, "new_cell"),
                value |-> new_station_count["cell"]]>>)
    \o (IF new_station_count["wifi"] <= 0 THEN <<>>
        ELSE <<[hashkey |-> ToHashkey(userid, "new_wifi"),
                value |-> new_station_count["wifi"]]>>)

process_score(io, userid, positions, new_station_count) ==
    IF userid = None \/ Cardinality(positions) <= 0 THEN io
    ELSE Enqueue(io, "update_score", ScoreList(userid, positions, new_station_count),
                 FALSE, TRUE)

\* A bug that reports only the reports that yielded observations as uploaded.
ReportsUploadedAccepted(reports, malformed_reports) == Len(reports) - malformed_reports

\* Line 297: the first argument of emit_stats.
ReportsUploaded(reports, malformed_reports) == Len(reports)

ObservationStats(name, action, count, api_tag) ==
    IF count > 0
    THEN <<[stat |-> "data.observation." \o action, value |-> count,
            tags |-> {"type:" \o name} \cup
                     (IF action = "drop" THEN {"reason:malformed"} ELSE {}) \cup api_tag]>>
    ELSE <<>>

emit_stats(reports, malformed_reports, upload, drop, api_key) ==
    LET api_tag == IF api_key # Null /\ ShouldLog(api_key) THEN {"key:" \o api_key} ELSE {}
    IN  (IF reports > 0
         THEN <<[stat |-> "data.report.upload", value |-> reports, tags |-> api_tag]>>
         ELSE <<>>)
        \o (IF malformed_reports > 0
            THEN <<[stat |-> "data.report.drop", value |-> malformed_reports,
                    tags |-> {"reason:malformed"} \cup api_tag]>>
            ELSE <<>>)
        \o ObservationStats("blue", "upload", upload["blue"], api_tag)
        \o ObservationStats("blue", "drop", drop["blue"], api_tag)
        \o ObservationStats("cell", "upload", upload["cell"], api_tag)
        \o ObservationStats("cell", "drop", drop["cell"], api_tag)
        \o ObservationStats("wifi", "upload", upload["wifi"], api_tag)
        \o ObservationStats("wifi", "drop", drop["wifi"], api_tag)

\* Lines 253-262: the number of new stations of each technology.
NewStationCount(observations) ==
    [name \in {"blue", "cell", "wifi"} |->
        new_stations(name, {StationKey(name, observations[name][i]) :
                            i \in 1..Len(observations[name])})]

\* Lines 264-301, after the loop over the reports left acc and the stations
\* were counted: the enqueue calls issued (io) and the counters emitted, with
\* the intermediate values kept for the history.
Dispatch(io, reports, api_key, userid, acc, new_station_count) ==
    [io |-> process_score(
                process_datamap(
                    EnqueueObservations(
                        EnqueueObservations(
                            EnqueueObservations(io, "blue", acc.observations["blue"]),
                            "cell", acc.observations["cell"]),
                        "wifi", acc.observations["wifi"]),
                    acc.positions),
                userid, acc.positions, new_station_count),
     stats |-> emit_stats(ReportsUploaded(reports, acc.malformed_reports),
                          acc.malformed_reports, acc.upload, acc.drop, api_key),
     acc |-> acc,
     new_station_count |-> new_station_count]

Accumulated(io, reports, api_key, userid, acc) ==
    Dispatch(io, reports, api_key, userid, acc, NewStationCount(acc.observations))

process_reports(io, reports, api_key, userid) ==
    Accumulated(io, reports, api_key, userid,
                ReportLoop(reports, 1,
                    [observations |-> NoObservations, upload |-> ZeroCount,
                     drop |-> ZeroCount, positions |-> {}, malformed_reports |-> 0,
                     results |-> <<>>]))

-----------------------------------------------------------------------------
(* InternalUploader.send *)

\* A bug that hands the mapper's empty result on to the groups.
KeepReportAlways(report) == TRUE

\* Line 160: `if report:`.
KeepReport(report) == DOMAIN report # {}

\* Lines 157-161: the groups as a sequence of [api_key, nickname, reports] in
\* order of first appearance.
AddToGroup(grouped, item, report) ==
    LET J == {j \in 1..Len(grouped) : /\ grouped[j].api_key = item.api_key
                                      /\ grouped[j].nickname = item.nickname}
    IN  IF ~KeepReport(report) THEN grouped
        ELSE IF J = {}
        THEN Append(grouped, [api_key |-> item.api_key, nickname |-> item.nickname,
                              reports |-> <<report>>])
        ELSE [grouped EXCEPT ![CHOOSE k \in J : TRUE].reports = Append(@, report)]

RECURSIVE GroupItems(_, _, _)
GroupItems(data, i, grouped) ==
    IF i > Len(data) THEN grouped
    ELSE GroupItems(data, i + 1,
                    AddToGroup(grouped, data[i], _format_report(data[i].report)))

-----------------------------------------------------------------------------
(* Bounds and input domains *)

MaxFields == 2      \* position fields present in one mapper input

PositionSources == {position_map[i][1] : i \in 1..Len(position_map)}
ScalarValues == {None, 0, 5}
PositionDicts ==
    UNION {[D -> ScalarValues] :
           D \in {E \in SUBSET (PositionSources \cup {"unknown"}) : Cardinality(E) <= MaxFields}}

BeaconSections == {
    EmptyDict,
    [wifiAccessPoints |-> <<>>],
    [wifiAccessPoints |-> <<[macAddress |-> 1, signalStrength |-> 0]>>],
    [wifiAccessPoints |-> <<[macAddress |-> None]>>],
    [cellTowers |-> <<[cellId |-> 1, age |-> None], [unknown |-> 1]>>],
    [bluetoothBeacons |-> <<EmptyDict>>, cellTowers |-> <<[cellId |-> 2]>>] }

TimestampSections == {EmptyDict, [timestamp |-> 0], [timestamp |-> 1500]}

MaxEntries == 2     \* beacon entries of one report handed to process_report
MaxKey == 2         \* station identifiers 1..MaxKey (0 is the malformed one)
MaxItems == 2       \* items of one upload payload
MaxResolves == 3    \* nickname resolutions started by the concurrent workers

\* Canonical beacon entries: the station identifier, an optional signal and
\* an optional age.
Optional(field, values) == {EmptyDict} \cup {[x \in {field} |-> v] : v \in values}
Entries(name) ==
    {Update(Update([x \in {IF name = "cell" THEN "cid" ELSE "key"} |-> k], s), a) :
        k \in 0..MaxKey, s \in Optional("signal", {1, 2}), a \in Optional("age", {1})}

ReportPositions == {[lat |-> 1, lon |-> 1], [lon |-> 1], [lat |-> 95, lon |-> 1]}

WithList(d, name, list) == IF list = <<>> THEN d ELSE Put(d, name, list)

\* The numbers of blue, cell and wifi entries of a report: at most MaxEntries
\* beacon entries over the three technologies.
EntryCounts ==
    {m \in (0..MaxEntries) \X (0..MaxEntries) \X (0..MaxEntries) :
        m[1] + m[2] + m[3] <= MaxEntries}

\* (api_key, nickname) of the submitted items: a resolvable nickname under
\* two api keys, a nickname of one character, and none.
Senders == {<<"test", "ab">>, <<Null, "ab">>, <<"test", "a">>, <<Null, Null>>}

PositionA == [position |-> [latitude |-> 1, longitude |-> 1]]
PositionB == [position |-> [latitude |-> 40, longitude |-> 1]]
OneWifi == [wifiAccessPoints |-> <<[macAddress |-> 1, signalStrength |-> 1]>>]
BadWifi == [wifiAccessPoints |-> <<[macAddress |-> 0]>>]
CellsAndWifis ==
    [cellTowers |-> <<[cellId |-> 0], [cellId |-> 1]>>,
     wifiAccessPoints |-> <<[macAddress |-> 2], [macAddress |-> 3], [macAddress |-> 2]>>]
AllTechnologies ==
    [bluetoothBeacons |-> <<[macAddress |-> 2]>>,
     cellTowers |-> <<[cellId |-> 2]>>,
     wifiAccessPoints |-> <<[macAddress |-> 0], [macAddress |-> 1, signalStrength |-> 2]>>]

\* The reports of the submitted items, in the upload format the mapper reads.
UploadReports == {
    PositionA,                              \* a position and no beacons
    Update(PositionA, OneWifi),
    Update(PositionB, OneWifi),
    Update(PositionA, BadWifi),             \* only a malformed entry
    Update(PositionA, CellsAndWifis),
    Update(PositionB, CellsAndWifis),
    Update(PositionB, AllTechnologies),
    OneWifi }                               \* no position

UploadItems ==
    {[api_key |-> s[1], nickname |-> s[2], report |-> r] :
        s \in Senders, r \in UploadReports}

CellKey(cid) == <<None, None, None, None, cid>>
StationStores == {
    [blue |-> {}, cell |-> {}, wifi |-> {}],
    [blue |-> {2}, cell |-> {CellKey(1)}, wifi |-> {1, 3}] }

Workers == {"w1", "w2"}
RECURSIVE Repeat(_, _)
Repeat(c, n) ==
    IF n = 0 THEN ""
    ELSE IF n % 2 = 0 THEN LET half == Repeat(c, n \div 2) IN half \o half
    ELSE c \o Repeat(c, n - 1)

\* Nicknames the workers resolve: two valid ones (2 and 128 characters) and
\* the invalid ones (none, empty, 1 and 129 characters).
Nicknames == {"ab", Repeat("b", 128), Null, "", "a", Repeat("a", 129)}

-----------------------------------------------------------------------------
(* Idle values of the parts a specification does not exercise *)

MapIdle == mpc = "idle" /\ mitem = EmptyDict /\ mreport = EmptyDict
ReportIdle == rpc = "idle" /\ rdata = EmptyDict /\ rresult = EmptyDict
UploadIdle ==
    /\ pc = "idle" /\ payload = <<>> /\ groups = <<>> /\ pipe = <<>> /\ queues = <<>>
    /\ stats = <<>> /\ log = <<>> /\ stations = [blue |-> {}, cell |-> {}, wifi |-> {}]
WorkersIdle ==
    /\ wpc = [w \in Workers |-> "idle"] /\ wnick = [w \in Workers |-> Null]
    /\ wold = [w \in Workers |-> <<>>] /\ resolved = <<>>

-----------------------------------------------------------------------------
(* Specification of the schema mapper: one item, mapped once *)

MapReport ==
    /\ mpc = "input"
    /\ mreport' = _format_report(mitem)
    /\ mpc' = "mapped"
    /\ UNCHANGED mitem
    /\ UNCHANGED <<repVars, upVars, users, wVars>>

\* Items with the position fields at the root, and items with them in the
\* 'position' section.
MapInit ==
    /\ mpc = "input"
    /\ \E p \in PositionDicts, b \in BeaconSections, t \in TimestampSections :
          \/ mitem = Update(Update(p, b), t)
          \/ mitem = Update(Update([position |-> p], b), t)
    /\ mreport = EmptyDict
    /\ ReportIdle /\ UploadIdle /\ users = <<>> /\ WorkersIdle
MapNext == MapReport
SpecMap == MapInit /\ [][MapNext]_vars

-----------------------------------------------------------------------------
(* Specification of process_report: one canonical report, processed once *)

ProcessReport ==
    /\ rpc = "input"
    /\ rresult' = process_report(rdata)
    /\ rpc' = "done"
    /\ UNCHANGED rdata
    /\ UNCHANGED <<mapVars, upVars, users, wVars>>

ReportInit ==
    /\ rpc = "input"
    /\ \E n \in EntryCounts :
          \E p \in ReportPositions,
             b \in [1..n[1] -> Entries("blue")],
             c \in [1..n[2] -> Entries("cell")],
             w \in [1..n[3] -> Entries("wifi")] :
             rdata = WithList(WithList(WithList(p, "blue", b), "cell", c), "wifi", w)
    /\ rresult = EmptyDict
    /\ MapIdle /\ UploadIdle /\ users = <<>> /\ WorkersIdle
ReportNext == ProcessReport
SpecReport == ReportInit /\ [][ReportNext]_vars

-----------------------------------------------------------------------------
(* Specification of the uploader: one payload, sent by one worker *)

\* An item is added to the payload the export queue hands to send.
Submit(item) ==
    /\ pc = "collect"
    /\ Len(payload) < MaxItems
    /\ payload' = Append(payload, item)
    /\ UNCHANGED <<pc, groups, pipe, queues, stats, log, stations, users>>
    /\ UNCHANGED <<mapVars, repVars, wVars>>

\* send, lines 157-161: the payload is parsed and grouped.
Send ==
    /\ pc = "collect"
    /\ payload # <<>>
    /\ groups' = GroupItems(payload, 1, <<>>)
    /\ pc' = "process"
    /\ UNCHANGED <<payload, pipe, queues, stats, log, stations, users>>
    /\ UNCHANGED <<mapVars, repVars, wVars>>

\* send, lines 163-168: one iteration of the loop over the groups.
\* The effects of one iteration: g is the group, u what process_user
\* returned and r what process_reports did.
GroupProcessed(g, u, r) ==
    /\ users' = u.users
    /\ pipe' = r.io.pipe
    /\ queues' = r.io.queues
    /\ stats' = stats \o r.stats
    /\ log' = Append(log, [api_key |-> g.api_key, nickname |-> g.nickname,
                           userid |-> u.userid, reports |-> g.reports,
                           results |-> r.acc.results,
                           observations |-> r.acc.observations,
                           calls |-> r.io.calls, stats |-> r.stats])

GroupResolved(g, u) ==
    GroupProcessed(g, u,
        process_reports([pipe |-> pipe, queues |-> queues, calls |-> <<>>],
                        g.reports, g.api_key, u.userid))

ProcessGroup ==
    /\ pc = "process"
    /\ groups # <<>>
    /\ GroupResolved(Head(groups), process_user(users, Head(groups).nickname))
    /\ groups' = Tail(groups)
    /\ UNCHANGED <<pc, payload, stations>>
    /\ UNCHANGED <<mapVars, repVars, wVars>>

\* The task executes the pipe (and commits the session) after send returned.
Flush ==
    /\ pc = "process"
    /\ groups = <<>>
    /\ queues' = queues \o pipe
    /\ pipe' = <<>>
    /\ pc' = "flushed"
    /\ UNCHANGED <<payload, groups, stats, log, stations, users>>
    /\ UNCHANGED <<mapVars, repVars, wVars>>

\* A database or queue failure before the flush: the exception leaves send,
\* the pipe is discarded and the session rolled back.
Fail ==
    /\ pc = "process"
    /\ pipe' = <<>>
    /\ users' = <<>>
    /\ pc' = "failed"
    /\ UNCHANGED <<payload, groups, queues, stats, log, stations>>
    /\ UNCHANGED <<mapVars, repVars, wVars>>

Init ==
    /\ pc = "collect" /\ payload = <<>> /\ groups = <<>> /\ users = <<>>
    /\ pipe = <<>> /\ queues = <<>> /\ stats = <<>> /\ log = <<>>
    /\ stations \in StationStores
    /\ MapIdle /\ ReportIdle /\ WorkersIdle

Next ==
    \/ \E item \in UploadItems : Submit(item)
    \/ Send
    \/ ProcessGroup
    \/ Flush
    \/ Fail

Spec == Init /\ [][Next]_vars

-----------------------------------------------------------------------------
(* Specification of process_user run by concurrent workers: the lookup     *)
(* (lines 392-393) and the insert (lines 395-400) are separate round trips *)
(* to the shared user table.                                               *)

Started == Len(resolved) + Cardinality({w \in Workers : wpc[w] # "idle"})

Return(w, userid) ==
    /\ resolved' = Append(resolved, [worker |-> w, nickname |-> wnick[w], userid |-> userid])
    /\ wpc' = [wpc EXCEPT ![w] = "idle"]

\* process_user is called; a nickname that is not valid returns None at once.
Resolve(w, nickname) ==
    /\ wpc[w] = "idle"
    /\ Started < MaxResolves
    /\ wnick' = [wnick EXCEPT ![w] = nickname]
    /\ IF NicknameValid(nickname)
       THEN wpc' = [wpc EXCEPT ![w] = "query"] /\ UNCHANGED resolved
       ELSE /\ resolved' = Append(resolved, [worker |-> w, nickname |-> nickname,
                                             userid |-> None])
            /\ UNCHANGED wpc
    /\ UNCHANGED <<wold, users>>
    /\ UNCHANGED <<mapVars, repVars, upVars>>

\* rows.first()
Query(w) ==
    /\ wpc[w] = "query"
    /\ wold' = [wold EXCEPT ![w] = FirstUser(users, wnick[w])]
    /\ wpc' = [wpc EXCEPT ![w] = "write"]
    /\ UNCHANGED <<wnick, resolved, users>>
    /\ UNCHANGED <<mapVars, repVars, upVars>>

\* `else: userid = old.id`
Reuse(w) ==
    /\ wpc[w] = "write"
    /\ wold[w] # <<>>
    /\ Return(w, wold[w][1].id)
    /\ UNCHANGED <<wnick, wold, users>>
    /\ UNCHANGED <<mapVars, repVars, upVars>>

\* `if not old:` and no row with the nickname was added since the lookup.
Create(w) ==
    /\ wpc[w] = "write"
    /\ wold[w] = <<>>
    /\ FirstUser(users, wnick[w]) = <<>>
    /\ users' = AddUser(users, wnick[w])
    /\ Return(w, Len(users) + 1)
    /\ UNCHANGED <<wnick, wold>>
    /\ UNCHANGED <<mapVars, repVars, upVars>>

\* `if not old:` after another worker added the nickname, on a table that
\* accepts a second row with the nickname.
CreateDuplicate(w) ==
    /\ wpc[w] = "write"
    /\ wold[w] = <<>>
    /\ FirstUser(users, wnick[w]) # <<>>
    /\ users' = AddUser(users, wnick[w])
    /\ Return(w, Len(users) + 1)
    /\ UNCHANGED <<wnick, wold>>
    /\ UNCHANGED <<mapVars, repVars, upVars>>

\* `if not old:` after another worker added the nickname, on a table that
\* rejects a second row with the nickname: session.flush() raises.
CreateRejected(w) ==
    /\ wpc[w] = "write"
    /\ wold[w] = <<>>
    /\ FirstUser(users, wnick[w]) # <<>>
    /\ wpc' = [wpc EXCEPT ![w] = "failed"]
    /\ UNCHANGED <<wnick, wold, resolved, users>>
    /\ UNCHANGED <<mapVars, repVars, upVars>>

UsersInit ==
    /\ wpc = [w \in Workers |-> "idle"] /\ wnick = [w \in Workers |-> Null]
    /\ wold = [w \in Workers |-> <<>>] /\ resolved = <<>>
    /\ users = <<>>
    /\ MapIdle /\ ReportIdle /\ UploadIdle

UsersNext ==
    \/ \E w \in Workers, n \in Nicknames : Resolve(w, n)
    \/ \E w \in Workers : Query(w)
    \/ \E w \in Workers : Reuse(w)
    \/ \E w \in Workers : Create(w)
    \/ \E w \in Workers : CreateDuplicate(w)
    \/ \E w \in Workers : CreateRejected(w)

SpecUsers == UsersInit /\ [][UsersNext]_vars

-----------------------------------------------------------------------------
(* Properties of the schema mapper (SpecMap) *)

BeaconSectionIds == {blue_id, cell_id, wifi_id}
BeaconMap(id) == IF id = blue_id THEN blue_map ELSE IF id = cell_id THEN cell_map ELSE wifi_map

\* The item has a beacon entry with a non-null value for a mapped field.
HasBeaconEntry(item) ==
    \E id \in BeaconSectionIds :
        /\ id[1] \in DOMAIN item
        /\ \E i \in 1..Len(item[id[1]]) :
              \E j \in 1..Len(BeaconMap(id)) :
                  /\ BeaconMap(id)[j][1] \in DOMAIN item[id[1]][i]
                  /\ item[id[1]][i][BeaconMap(id)[j][1]] # None

\* The canonical report holds exactly the present non-null position fields of
\* the dict fields, each under its canonical name.
HoldsPositionOf(report, fields) ==
    \A i \in 1..Len(position_map) :
        LET source == position_map[i][1]
            target == position_map[i][2]
        IN  IF source \in DOMAIN fields /\ fields[source] # None
            THEN target \in DOMAIN report /\ report[target] = fields[source]
            ELSE target \notin DOMAIN report

PositionAtRoot(item) ==
    /\ "position" \notin DOMAIN item
    /\ \E i \in 1..Len(position_map) : position_map[i][1] \in DOMAIN item

PositionSection(item) == IF "position" \in DOMAIN item THEN item["position"] ELSE EmptyDict

\* C9 as stated: for an item with the position fields at its root and at
\* least one non-empty beacon entry, the mapped report holds every present
\* non-null position field under its canonical name and no entry for an
\* absent or null one.
C9_RootPositionMapped ==
    (mpc = "mapped" /\ PositionAtRoot(mitem) /\ HasBeaconEntry(mitem))
        => HoldsPositionOf(mreport, mitem)

\* C9 amended: the position fields are read from the item's 'position'
\* section (fields at the item root are not read); for an item with at least
\* one non-empty beacon entry the mapped report holds every present non-null
\* field of that section at its root under the canonical name, and no entry
\* for an absent or null one.
C9_SectionPositionMapped ==
    (mpc = "mapped" /\ HasBeaconEntry(mitem))
        => HoldsPositionOf(mreport, PositionSection(mitem))

\* C9 witness: a mapped item whose position section holds a non-null and a
\* null field, the first of which reached the report.
C9_Witness ==
    /\ mpc = "mapped" /\ HasBeaconEntry(mitem)
    /\ "position" \in DOMAIN mitem
    /\ \E f, g \in DOMAIN mitem["position"] :
          /\ f = "altitudeAccuracy" /\ mitem["position"][f] = 5
          /\ g \in PositionSources /\ mitem["position"][g] = None
    /\ "altitude_accuracy" \in DOMAIN mreport /\ mreport["altitude_accuracy"] = 5

-----------------------------------------------------------------------------
(* Properties of process_report (SpecReport) *)

TechnologyNames == {"blue", "cell", "wifi"}

\* The station key of a canonical beacon entry.
EntryKey(name, item) ==
    IF name = "cell"
    THEN <<Get(item, "radio"), Get(item, "mcc"), Get(item, "mnc"), Get(item, "lac"),
           Get(item, "cid")>>
    ELSE Get(item, "key")

ValidEntries(name, data) ==
    {i \in 1..Len(GetList(data, name)) : ItemValid(name, data[name][i])}

\* C2: for a report whose root validation succeeds and every technology,
\* process_report returns at most one observation per station key and exactly
\* one for every key of a valid beacon entry of the report.
C2_OneObservationPerKey ==
    (rpc = "done" /\ rresult.ok) =>
        \A name \in TechnologyNames :
            LET obs == rresult[name]
            IN  /\ \A i, j \in 1..Len(obs) :
                       UniqueKey(name, obs[i]) = UniqueKey(name, obs[j]) => i = j
                /\ \A e \in ValidEntries(name, rdata) :
                       Cardinality({i \in 1..Len(obs) :
                           UniqueKey(name, obs[i]) = EntryKey(name, rdata[name][e])}) = 1
                /\ \A i \in 1..Len(obs) :
                       \E e \in ValidEntries(name, rdata) :
                           UniqueKey(name, obs[i]) = EntryKey(name, rdata[name][e])

\* C2 witness: a valid report that holds the same valid entry twice and
\* yielded one observation for it.
C2_Witness ==
    /\ rpc = "done" /\ rresult.ok
    /\ \E name \in TechnologyNames :
          /\ Len(GetList(rdata, name)) = 2
          /\ rdata[name][1] = rdata[name][2]
          /\ ItemValid(name, rdata[name][1])
          /\ Len(rresult[name]) = 1

Orders(n) == {p \in [1..n -> 1..n] : \A i, j \in 1..n : p[i] = p[j] => i = j}
Permuted(data, name, p) == Put(data, name, [i \in 1..Len(data[name]) |-> data[name][p[i]]])

\* The entries of the technology are all valid candidates for one station key.
ShareKey(name, data) ==
    /\ Len(GetList(data, name)) >= 2
    /\ \A i \in 1..Len(data[name]) :
          /\ ItemValid(name, data[name][i])
          /\ EntryKey(name, data[name][i]) = EntryKey(name, data[name][1])

\* Two distinct candidates of the technology are equally good.
HasTie(name, data) ==
    \E i, j \in 1..Len(data[name]) :
        LET a == Combine(name, ReportCreate(data), data[name][i])
            b == Combine(name, ReportCreate(data), data[name][j])
        IN  a # b /\ Better(a, b) /\ Better(b, a)

SameSurvivorInEveryOrder(name) ==
    \A p \in Orders(Len(rdata[name])) :
        process_report(Permuted(rdata, name, p))[name] = rresult[name]

-----------------------------------------------------------------------------
(* Properties of concurrent user resolution (SpecUsers) *)

UserRows(nickname) == {i \in 1..Len(users) : users[i].nickname = nickname}

\* C8 as stated: after any interleaving of resolutions of one valid nickname
\* at most one user record with the nickname exists and every resolution
\* returned the identifier of that record.
C8_OneUserPerNickname ==
    \A n \in Nicknames :
        NicknameValid(n) =>
            /\ Cardinality(UserRows(n)) <= 1
            /\ \A w \in Workers : ~(wpc[w] = "failed" /\ wnick[w] = n)
            /\ \A k \in 1..Len(resolved) :
                   resolved[k].nickname = n =>
                       \E i \in UserRows(n) : users[i].id = resolved[k].userid

-----------------------------------------------------------------------------
(* Properties of the uploader (Spec) *)

HasObservations(r) == r.blue # <<>> \/ r.cell # <<>> \/ r.wifi # <<>>

StatEntries(g, stat, tag) ==
    {i \in 1..Len(g.stats) : g.stats[i].stat = stat /\ tag \subseteq g.stats[i].tags}

\* The value a group emitted for a counter, 0 when it emitted none.
StatValue(g, stat, tag) ==
    IF StatEntries(g, stat, tag) = {} THEN 0
    ELSE g.stats[CHOOSE i \in StatEntries(g, stat, tag) : TRUE].value

UploadValue(g) == StatValue(g, "data.report.upload", {})
DropValue(g) == StatValue(g, "data.report.drop", {"reason:malformed"})

\* The reports of a group that contributed at least one observation.
AcceptedReports(g) ==
    {r \in 1..Len(g.reports) : HasObservations(process_report(g.reports[r]))}

\* C1 as stated: every enqueue of a payload is issued against the payload's
\* command buffer, so nothing the payload enqueued is visible on a queue
\* before the flush, and nothing ever is when the payload fails before it.
C1_NothingVisibleBeforeFlush ==
    /\ \A k \in 1..Len(log) : \A c \in 1..Len(log[k].calls) : log[k].calls[c].pipe
    /\ pc \in {"process", "failed"} => queues = <<>>

\* C7 as stated: the value emitted as data.report.upload for a group is the
\* number of its reports that contributed at least one observation, so that
\* upload and drop sum to the number of reports processed.
C7_UploadCountsAccepted ==
    \A k \in 1..Len(log) :
        /\ UploadValue(log[k]) = Cardinality(AcceptedReports(log[k]))
        /\ UploadValue(log[k]) + DropValue(log[k]) = Len(log[k].reports)

\* C7 amended: the value emitted as data.report.upload for a group is the
\* number of reports processed for the group, those counted as malformed
\* included; data.report.drop counts the reports that contributed no
\* observation, so upload minus drop is the number of reports that did.
C7_UploadCountsProcessed ==
    \A k \in 1..Len(log) :
        /\ Cardinality(StatEntries(log[k], "data.report.upload", {})) = 1
        /\ UploadValue(log[k]) = Len(log[k].reports)
        /\ Cardinality(StatEntries(log[k], "data.report.drop", {})) <= 1
        /\ DropValue(log[k]) = Len(log[k].reports) - Cardinality(AcceptedReports(log[k]))

\* C7 witness: a group with an accepted and a malformed report.
C7_Witness ==
    \E k \in 1..Len(log) :
        /\ Cardinality(AcceptedReports(log[k])) = 1
        /\ DropValue(log[k]) = 1
        /\ UploadValue(log[k]) = 2

Sender(item) == <<item.api_key, item.nickname>>
ItemsOf(s) == {i \in 1..Len(payload) : Sender(payload[i]) = s}

ValidPosition(report) ==
    /\ "position" \in DOMAIN report
    /\ ReportValid([lat |-> Get(report["position"], "latitude"),
                    lon |-> Get(report["position"], "longitude")])

\* The submitted reports with a valid position and no beacon entry.
PositionOnlyItems(s) ==
    {i \in ItemsOf(s) : ValidPosition(payload[i].report) /\ ~HasBeaconEntry(payload[i].report)}

\* The submitted reports with a beacon entry that yield no observation.
FruitlessItems(s) ==
    {i \in ItemsOf(s) :
        /\ HasBeaconEntry(payload[i].report)
        /\ ~HasObservations(process_report(_format_report(payload[i].report)))}

LogOf(s) == {k \in 1..Len(log) : <<log[k].api_key, log[k].nickname>> = s}
DropOf(s) == IF LogOf(s) = {} THEN 0 ELSE DropValue(log[CHOOSE k \in LogOf(s) : TRUE])

\* The heatmap cells a group enqueued.
DatamapQueues == {"update_datamap_" \o a \o b : a \in {"n", "s"}, b \in {"e", "w"}}
HeatmapCells(g) ==
    UNION {Range(g.calls[c].items) :
           c \in {d \in 1..Len(g.calls) : g.calls[d].queue \in DatamapQueues}}

AcceptedPositions(g) ==
    {<<g.reports[r]["lat"], g.reports[r]["lon"]>> : r \in AcceptedReports(g)}

\* C3 as stated: a submitted report with a valid position and no beacon entry
\* adds exactly 1 to the malformed-report counter of its group.
C3_PositionOnlyCountedMalformed ==
    pc = "flushed" =>
        \A s \in Senders :
            DropOf(s) = Cardinality(PositionOnlyItems(s)) + Cardinality(FruitlessItems(s))

\* C3 amended: a submitted report with a valid position and no beacon entry
\* is discarded by send before the grouping: it adds nothing to the
\* malformed-report counter of its group (which counts the reports with
\* beacon entries that yielded no observation) and is not among the reports
\* processed, so it contributes no observation, heatmap cell or score delta.
C3_PositionOnlyDiscarded ==
    pc = "flushed" =>
        \A s \in Senders :
            /\ DropOf(s) = Cardinality(FruitlessItems(s))
            /\ \A k \in LogOf(s) :
                  /\ Len(log[k].reports) =
                        Cardinality({i \in ItemsOf(s) : HasBeaconEntry(payload[i].report)})
                  /\ \A r \in 1..Len(log[k].reports) : DOMAIN log[k].reports[r] # {}
                  /\ HeatmapCells(log[k]) =
                        {EncodeDatamapGrid(Scale(q[1], q[2])[1], Scale(q[1], q[2])[2]) :
                            q \in AcceptedPositions(log[k])}
            /\ (\A i \in ItemsOf(s) : ~HasBeaconEntry(payload[i].report)) => LogOf(s) = {}

\* C3 witness: a flushed payload in which a sender's position-only report at
\* one position accompanies an accepted report at another position.
C3_Witness ==
    /\ pc = "flushed"
    /\ \E s \in Senders :
          /\ \E i \in PositionOnlyItems(s) : payload[i].report["position"]["latitude"] = 1
          /\ \E k \in LogOf(s) : AcceptedPositions(log[k]) = {<<40, 1>>}

RemoveAt(seq, i) == SubSeq(seq, 1, i - 1) \o SubSeq(seq, i + 1, Len(seq))
Without(report, name, i) == Put(report, name, RemoveAt(report[name], i))

MalformedEntries(report, name) ==
    {i \in 1..Len(GetList(report, name)) : ~ItemValid(name, report[name][i])}

\* C4: a beacon entry that fails its validation adds exactly 1 to the drop
\* count of its technology for the report and yields no observation; the
\* other entries of the report give the observations of the report without
\* the malformed entry, and every report of the batch is processed.
C4_MalformedEntrySkipped ==
    \A k \in 1..Len(log) :
        LET g == log[k]
        IN  /\ Len(g.results) = Len(g.reports)
            /\ \A r \in 1..Len(g.reports) :
                  /\ \A name \in TechnologyNames :
                        Range(process_report(g.reports[r])[name]) \subseteq
                            Range(g.observations[name])
                  /\ g.results[r].ok =>
                        \A name \in TechnologyNames :
                            \A i \in MalformedEntries(g.reports[r], name) :
                                LET without == process_report(Without(g.reports[r], name, i))
                                IN  /\ g.results[r].malformed =
                                           [without.malformed EXCEPT ![name] = @ + 1]
                                    /\ \A other \in TechnologyNames :
                                           Range(g.results[r][other]) = Range(without[other])

\* C4 witness: a group whose first report holds a malformed cell entry before
\* a valid one, and valid wifi entries, and whose second report gave
\* observations.
C4_Witness ==
    \E k \in 1..Len(log) :
        LET g == log[k]
        IN  /\ Len(g.reports) = 2
            /\ 1 \in MalformedEntries(g.reports[1], "cell")
            /\ Len(g.results[1]["cell"]) = 1
            /\ Len(g.results[1]["wifi"]) = 2
            /\ g.results[1].malformed["cell"] = 1
            /\ HasObservations(g.results[2])

Shards == {"0", "1"}
ObservationQueue(name, shard) == "update_" \o name \o "_" \o shard
ObservationQueues == {ObservationQueue(name, shard) : name \in TechnologyNames, shard \in Shards}

CallsOn(g, queue) == {c \in 1..Len(g.calls) : g.calls[c].queue = queue}

\* The observations that survived the deduplication of a report of the group
\* (the lists process_report returned for it) and belong to a shard, one
\* element <<report, index>> for each.
Survivors(g, name, shard) ==
    {o \in (1..Len(g.reports)) \X (1..MaxEntries + 1) :
        /\ o[2] <= Len(g.results[o[1]][name])
        /\ ShardId(name, StationKey(name, g.results[o[1]][name][o[2]])) = shard}

SurvivorAt(g, name, o) == g.results[o[1]][name][o[2]]

\* C5: for each technology and shard, the observations of the group that
\* survived the deduplication and belong to the shard are enqueued, each
\* exactly once and in serialized form, by a single enqueue call on the queue
\* update_<technology>_<shard>; no call is made for a shard without
\* observations, and no observation goes to any other queue.
C5_ObservationsEnqueuedOncePerShard ==
    \A k \in 1..Len(log) :
        LET g == log[k]
        IN  /\ \A c \in 1..Len(g.calls) :
                  g.calls[c].queue \in ObservationQueues \cup DatamapQueues \cup {"update_score"}
            /\ \A name \in TechnologyNames : \A shard \in Shards :
                  LET expected == Survivors(g, name, shard)
                      made == CallsOn(g, ObservationQueue(name, shard))
                  IN  /\ Cardinality(made) = IF expected = {} THEN 0 ELSE 1
                      /\ \A c \in made :
                            /\ g.calls[c].pipe /\ g.calls[c].json
                            /\ Len(g.calls[c].items) = Cardinality(expected)
                            /\ \A o \in expected :
                                  Cardinality({j \in 1..Len(g.calls[c].items) :
                                      g.calls[c].items[j] = ToJson(SurvivorAt(g, name, o))})
                                  = Cardinality({q \in expected :
                                      SurvivorAt(g, name, q) = SurvivorAt(g, name, o)})

\* C5 witness: a group of two reports whose wifi observations fall into both
\* shards, with two observations in one call, and whose cell observation went
\* to a cell queue.
C5_Witness ==
    \E k \in 1..Len(log) :
        LET g == log[k]
        IN  /\ Len(g.reports) = 2
            /\ \E c \in CallsOn(g, "update_wifi_0") : Len(g.calls[c].items) >= 2
            /\ CallsOn(g, "update_wifi_1") # {}
            /\ CallsOn(g, "update_cell_1") # {}
            /\ HasObservations(process_report(g.reports[2]))

\* The stations of a technology the group observed that the store lacks.
UnknownStations(g, name) ==
    {StationKey(name, SurvivorAt(g, name, o)) :
        o \in Survivors(g, name, "0") \cup Survivors(g, name, "1")} \ stations[name]

ScoreItems(g, kind) ==
    {<<c, j>> \in (1..Len(g.calls)) \X (1..3) :
        /\ g.calls[c].queue = "update_score"
        /\ j <= Len(g.calls[c].items)
        /\ g.calls[c].items[j].hashkey.key = kind}

ScoreValue(g, x) == g.calls[x[1]].items[x[2]].value

\* The deltas of a kind are none when the count is 0 and one delta of the
\* count otherwise.
ScoreDelta(g, kind, count) ==
    /\ Cardinality(ScoreItems(g, kind)) = IF count > 0 THEN 1 ELSE 0
    /\ \A x \in ScoreItems(g, kind) : ScoreValue(g, x) = count

\* C6: a group has a userid exactly when its nickname has 2 to 128
\* characters.  With a userid and at least one accepted position, the group
\* enqueues one score list for the userid: a location delta of the number of
\* distinct accepted positions, a new_cell delta iff the number of newly seen
\* cells is positive and a new_wifi delta iff the number of newly seen wifis
\* is positive, and nothing else.  Otherwise it enqueues no score, while its
\* observations and heatmap cells are enqueued all the same.
C6_ScoreDeltas ==
    \A k \in 1..Len(log) :
        LET g == log[k]
            scored == g.userid # None /\ AcceptedPositions(g) # {}
        IN  /\ (g.userid # None) <=>
                   (g.nickname # Null /\ Len(g.nickname) >= 2 /\ Len(g.nickname) <= 128)
            /\ Cardinality(CallsOn(g, "update_score")) = IF scored THEN 1 ELSE 0
            /\ \A c \in CallsOn(g, "update_score") :
                  /\ Len(g.calls[c].items) =
                        Cardinality(ScoreItems(g, "location") \cup ScoreItems(g, "new_cell")
                                    \cup ScoreItems(g, "new_wifi"))
                  /\ \A j \in 1..Len(g.calls[c].items) :
                        g.calls[c].items[j].hashkey.userid = g.userid
                  /\ g.calls[c].json
            /\ scored =>
                  /\ ScoreDelta(g, "location", Cardinality(AcceptedPositions(g)))
                  /\ ScoreDelta(g, "new_cell", Cardinality(UnknownStations(g, "cell")))
                  /\ ScoreDelta(g, "new_wifi", Cardinality(UnknownStations(g, "wifi")))
            /\ \A name \in TechnologyNames :
                  g.observations[name] # <<>> =>
                      \E shard \in Shards : CallsOn(g, ObservationQueue(name, shard)) # {}
            /\ AcceptedPositions(g) # {} => HeatmapCells(g) # {}

\* C6 witness: a group with a userid that observed a known cell, a known and
\* a new wifi at two positions, scored as 2 locations and 1 new wifi.
C6_Witness ==
    \E k \in 1..Len(log) :
        LET g == log[k]
        IN  /\ g.userid # None
            /\ Cardinality(AcceptedPositions(g)) = 2
            /\ g.observations["cell"] # <<>>
            /\ UnknownStations(g, "cell") = {}
            /\ Cardinality(UnknownStations(g, "wifi")) = 1
            /\ Cardinality(Range(g.observations["wifi"]) ) >= 2
            /\ \E x \in ScoreItems(g, "location") : ScoreValue(g, x) = 2
            /\ \E x \in ScoreItems(g, "new_wifi") : ScoreValue(g, x) = 1
            /\ ScoreItems(g, "new_cell") = {}

\* C6 second case: a group without a userid that enqueued observations and
\* heatmap cells and no score.
C6_NoUserReached ==
    \E k \in 1..Len(log) :
        /\ log[k].userid = None
        /\ AcceptedPositions(log[k]) # {}
        /\ CallsOn(log[k], "update_score") = {}

====
